---- MODULE Spec2Model ----
(***************************************************************************)
(* Model of src/python/preprocess_texts.py: the section extraction script  *)
(* that splits plain text files into "LIFE OF ..." / "COMPARISON OF ..."   *)
(* sections, reflows paragraphs, drops footnotes and citation markers and  *)
(* writes one file per section.                                            *)
(*                                                                         *)
(* A text is a sequence of one-character strings.  Offsets are 0-based as  *)
(* in Python where the code uses offsets (match.start(), slicing); the     *)
(* character at Python offset p is text[p + 1].                            *)
(***************************************************************************)
EXTENDS Integers, Sequences, FiniteSets, TLC

VARIABLES
    fn,             \* which text function the harness has applied ("none" before)
    arg,            \* the text handed to the function
    result,         \* the text it returned
    pc,             \* position of process_file: "glob", "sections", "done", "failed"
    pending,        \* stems of the *.txt files the glob has not yielded yet
    file_stem,      \* file_path.stem of the file being processed
    original_text,  \* the normalized text of that file
    matches,        \* list(section_pattern.finditer(original_text))
    i,              \* loop index into matches (0-based)
    disk,           \* output directory: file name -> who wrote it, and how far
    log             \* the sections written so far from the file being processed

vars == <<fn, arg, result, pc, pending, file_stem, original_text, matches, i,
          disk, log>>

----------------------------------------------------------------------------
(* Bounds of the input sets. *)

MaxPoetryParts == 5
MaxUnwantedParts == 4
MaxNormalizeParts == 4
MaxLines == 3

----------------------------------------------------------------------------
(* Characters and generic string helpers (Python str semantics). *)

NL == "\n"

UpperLetters ==
    <<"A","B","C","D","E","F","G","H","I","J","K","L","M",
      "N","O","P","Q","R","S","T","U","V","W","X","Y","Z">>

LowerLetters ==
    <<"a","b","c","d","e","f","g","h","i","j","k","l","m",
      "n","o","p","q","r","s","t","u","v","w","x","y","z">>

IsUpper(c) == \E k \in 1..Len(UpperLetters) : UpperLetters[k] = c

IsDigit(c) == c \in {"0","1","2","3","4","5","6","7","8","9"}

\* characters str.strip() / str.rstrip() remove
Whitespace == {" ", "\t", "\n", "\r", "\f"}

\* characters str.splitlines() breaks at
LineBreaks == {"\n", "\r", "\f"}

\* str.lower() on one character
LowerChar(c) ==
    IF IsUpper(c)
    THEN LowerLetters[CHOOSE k \in 1..Len(UpperLetters) : UpperLetters[k] = c]
    ELSE c

\* str.lower()
Lower(text) == [k \in 1..Len(text) |-> LowerChar(text[k])]

\* text[a:b] for 0 <= a, b <= len(text)
Slice(text, a, b) == IF a >= b THEN <<>> ELSE SubSeq(text, a + 1, b)

\* text.startswith(pat, p): pat occurs in text at offset p
StartsAt(text, p, pat) ==
    /\ p + Len(pat) <= Len(text)
    /\ \A k \in 1..Len(pat) : text[p + k] = pat[k]

\* text.startswith(pat)
StartsWith(text, pat) == StartsAt(text, 0, pat)

\* the least and the greatest element of a non-empty set of numbers
MinOf(S) == CHOOSE x \in S : \A y \in S : x <= y
MaxOf(S) == CHOOSE x \in S : \A y \in S : y <= x

\* text.find(pat, p): offset of the first occurrence of pat at or after
\* offset p, or -1
Find(text, pat, p) ==
    LET hits == {q \in p..(Len(text) - Len(pat)) : StartsAt(text, q, pat)}
    IN  IF hits = {} THEN -1 ELSE MinOf(hits)

RECURSIVE ReplaceFrom(_, _, _, _)
\* str.replace(old, new), scanning from offset p: leftmost, non-overlapping
ReplaceFrom(text, old, new, p) ==
    LET q == Find(text, old, p)
    IN  IF q = -1 THEN Slice(text, p, Len(text))
        ELSE Slice(text, p, q) \o new \o ReplaceFrom(text, old, new, q + Len(old))

Replace(text, old, new) == ReplaceFrom(text, old, new, 0)

\* str.lstrip()
LStrip(text) ==
    LET kept == {k \in 1..Len(text) : text[k] \notin Whitespace}
    IN  IF kept = {} THEN <<>> ELSE SubSeq(text, MinOf(kept), Len(text))

\* str.rstrip()
RStrip(text) ==
    LET kept == {k \in 1..Len(text) : text[k] \notin Whitespace}
    IN  IF kept = {} THEN <<>> ELSE SubSeq(text, 1, MaxOf(kept))

\* str.strip()
Strip(text) == LStrip(RStrip(text))

RECURSIVE TextsOf(_, _)
\* all concatenations of at most n pieces
TextsOf(pieces, n) ==
    IF n = 0 THEN {<<>>}
    ELSE {<<>>} \cup {p \o t : p \in pieces, t \in TextsOf(pieces, n - 1)}

----------------------------------------------------------------------------
(* preserve_poetry_linebreaks *)

POETRY_LB == <<"<","P","O","E","T","R","Y","_","L","B",">">>

FourSpaces == <<" "," "," "," ">>

RECURSIVE MarkPoetryFrom(_, _)
\* re.sub(r"(\n)( {4})", r"<POETRY_LB>\2", text) from offset p: each
\* newline followed by four spaces, leftmost first
MarkPoetryFrom(text, p) ==
    LET q == Find(text, <<NL>> \o FourSpaces, p)
    IN  IF q = -1 THEN Slice(text, p, Len(text))
        ELSE Slice(text, p, q) \o POETRY_LB \o FourSpaces
                 \o MarkPoetryFrom(text, q + 5)

MarkPoetryNone(text) == text

MarkPoetry(text) == MarkPoetryFrom(text, 0)

\* re.sub(r"(?<!\n)\n(?!\n)", " ", text): the lookarounds read the text
\* being substituted, so the substitution is pointwise
JoinLines(text) ==
    [k \in 1..Len(text) |->
        IF /\ text[k] = NL
           /\ (k = 1 \/ text[k - 1] # NL)
           /\ (k = Len(text) \/ text[k + 1] # NL)
        THEN " "
        ELSE text[k]]

RestorePoetryNone(text) == text

\* text.replace("<POETRY_LB>", "\n")
RestorePoetry(text) == Replace(text, POETRY_LB, <<NL>>)

preserve_poetry_linebreaks(text) == RestorePoetry(JoinLines(MarkPoetry(text)))

----------------------------------------------------------------------------
(* remove_unwanted_text *)

\* length of the run of \d from offset p
DigitRun(text, p) ==
    MinOf({q \in p..Len(text) : q = Len(text) \/ ~IsDigit(text[q + 1])}) - p

\* length of the run of [^)] from offset p
NotCloseParenRun(text, p) ==
    MinOf({q \in p..Len(text) : q = Len(text) \/ text[q + 1] = ")"}) - p

\* end offset of a match of \[\d+\] at offset p, or -1
CitationEnd(text, p) ==
    IF StartsAt(text, p, <<"[">>)
    THEN LET n == DigitRun(text, p + 1)
         IN  IF n >= 1 /\ StartsAt(text, p + 1 + n, <<"]">>) THEN p + n + 2 ELSE -1
    ELSE -1

PLUTARCHS_LIVES ==
    <<"P","L","U","T","A","R","C","H","'","S"," ","L","I","V","E","S">>

\* end offset of a match of " \([^)]+\)" at offset q, or -1
ParenSuffixEnd(text, q) ==
    IF StartsAt(text, q, <<" ", "(">>)
    THEN LET n == NotCloseParenRun(text, q + 2)
         IN  IF n >= 1 /\ StartsAt(text, q + 2 + n, <<")">>) THEN q + n + 3 ELSE -1
    ELSE -1

\* end offset of a match of PLUTARCH'S LIVES.? \([^)]+\) at offset p, or -1;
\* the greedy .? first takes one character other than a newline
ReferenceEnd(text, p) ==
    IF StartsAt(text, p, PLUTARCHS_LIVES)
    THEN LET q == p + Len(PLUTARCHS_LIVES)
             withDot == IF q < Len(text) /\ text[q + 1] # NL
                        THEN ParenSuffixEnd(text, q + 1) ELSE -1
         IN  IF withDot # -1 THEN withDot ELSE ParenSuffixEnd(text, q)
    ELSE -1

RECURSIVE DeleteCitationsFrom(_, _)
\* re.sub(r"\[\d+\]", "", text) from offset p: leftmost, non-overlapping,
\* one pass
DeleteCitationsFrom(text, p) ==
    LET hits == {q \in p..(Len(text) - 1) : CitationEnd(text, q) # -1}
    IN  IF hits = {} THEN Slice(text, p, Len(text))
        ELSE Slice(text, p, MinOf(hits))
                 \o DeleteCitationsFrom(text, CitationEnd(text, MinOf(hits)))

DeleteCitationsNone(text) == text

DeleteCitations(text) == DeleteCitationsFrom(text, 0)

RECURSIVE DeleteReferencesFrom(_, _)
\* re.sub(r"PLUTARCH'S LIVES.? \([^)]+\)", "", text) from offset p
DeleteReferencesFrom(text, p) ==
    LET hits == {q \in p..(Len(text) - 1) : ReferenceEnd(text, q) # -1}
    IN  IF hits = {} THEN Slice(text, p, Len(text))
        ELSE Slice(text, p, MinOf(hits))
                 \o DeleteReferencesFrom(text, ReferenceEnd(text, MinOf(hits)))

DeleteReferences(text) == DeleteReferencesFrom(text, 0)

remove_unwanted_text(text) == DeleteReferences(DeleteCitations(text))

----------------------------------------------------------------------------
(* Character normalization (the four replace calls of process_file). *)

\* The four ligature characters U+00C6, U+00E6, U+0152, U+0153, each one
\* character of a text, written by their entity names.
AElig == "&AElig;"
aelig == "&aelig;"
OElig == "&OElig;"
oelig == "&oelig;"

NormalizeNoLowerOE(text) ==
    Replace(Replace(Replace(text, <<AElig>>, <<"A","E">>), <<aelig>>, <<"a","e">>),
            <<OElig>>, <<"O","E">>)

Normalize(text) ==
    Replace(Replace(Replace(Replace(text, <<AElig>>, <<"A","E">>),
                            <<aelig>>, <<"a","e">>),
                    <<OElig>>, <<"O","E">>),
            <<oelig>>, <<"o","e">>)

----------------------------------------------------------------------------
(* remove_footnotes *)

RECURSIVE SplitlinesFrom(_, _)
\* str.splitlines() from offset p: a line ends at every line break ("\r\n"
\* counting as one) and a trailing empty line is not reported
SplitlinesFrom(text, p) ==
    IF p >= Len(text) THEN <<>>
    ELSE LET breaks == {q \in p..(Len(text) - 1) : text[q + 1] \in LineBreaks}
         IN  IF breaks = {} THEN <<Slice(text, p, Len(text))>>
             ELSE LET q == MinOf(breaks)
                      w == IF StartsAt(text, q, <<"\r", NL>>) THEN 2 ELSE 1
                  IN  <<Slice(text, p, q)>> \o SplitlinesFrom(text, q + w)

Splitlines(text) == SplitlinesFrom(text, 0)

RECURSIVE JoinWith(_, _)
\* sep.join(lines)
JoinWith(lines, sep) ==
    IF lines = <<>> THEN <<>>
    ELSE IF Len(lines) = 1 THEN lines[1]
    ELSE lines[1] \o sep \o JoinWith(Tail(lines), sep)

FOOTNOTES_COLON == <<"f","o","o","t","n","o","t","e","s",":">>

FOOTNOTE_BRACKET == <<"[","f","o","o","t","n","o","t","e"," ">>

\* the two tests of the loop body on one line
IsFootnoteLine(line) ==
    \/ StartsWith(Lower(Strip(line)), FOOTNOTES_COLON)
    \/ StartsWith(Lower(Strip(line)), FOOTNOTE_BRACKET)

remove_footnotes(text) ==
    LET lines == Splitlines(text)
        hits == {k \in 1..Len(lines) : IsFootnoteLine(lines[k])}
    IN  IF hits = {} THEN text
        ELSE RStrip(JoinWith(SubSeq(lines, 1, MinOf(hits) - 1), <<NL>>))

----------------------------------------------------------------------------
(* Section discovery: section_pattern.finditer(original_text) *)

LIFE_OF == <<"L","I","F","E"," ","O","F"," ">>

COMPARISON_OF == <<"C","O","M","P","A","R","I","S","O","N"," ","O","F">>

\* [A-Z .]
IsNameChar(c) == IsUpper(c) \/ c = " " \/ c = "."

\* length of the run of [A-Z .] from offset p
NameCharRun(text, p) ==
    MinOf({q \in p..Len(text) : q = Len(text) \/ ~IsNameChar(text[q + 1])}) - p

\* length of the run of [^\n] from offset p
NotNewlineRun(text, p) ==
    MinOf({q \in p..Len(text) : q = Len(text) \/ text[q + 1] = NL}) - p

\* ^ with re.MULTILINE at offset p
AtLineStart(text, p) == p = 0 \/ text[p] = NL

\* $ with re.MULTILINE at offset q
AtLineEnd(text, q) == q = Len(text) \/ text[q + 1] = NL

\* the longest of the repetition counts lo..n after which $ matches at
\* offset q + count (a greedy quantifier backing off), as an end offset or -1
GreedyToLineEnd(text, q, lo, n) ==
    LET ok == {m \in lo..n : AtLineEnd(text, q + m)}
    IN  IF ok = {} THEN -1 ELSE q + MaxOf(ok)

\* end offset of a match of LIFE OF [A-Z .]+$ at offset p, or -1
LifeEnd(text, p) ==
    IF StartsAt(text, p, LIFE_OF)
    THEN GreedyToLineEnd(text, p + Len(LIFE_OF), 1,
                         NameCharRun(text, p + Len(LIFE_OF)))
    ELSE -1

\* end offset of a match of COMPARISON OF[^\n]*$ at offset p, or -1
ComparisonEnd(text, p) ==
    IF StartsAt(text, p, COMPARISON_OF)
    THEN GreedyToLineEnd(text, p + Len(COMPARISON_OF), 0,
                         NotNewlineRun(text, p + Len(COMPARISON_OF)))
    ELSE -1

\* end offset of a match of the section pattern at offset p, or -1
HeaderEnd(text, p) ==
    IF ~AtLineStart(text, p) THEN -1
    ELSE IF LifeEnd(text, p) # -1 THEN LifeEnd(text, p)
    ELSE ComparisonEnd(text, p)

RECURSIVE FindIterFrom(_, _)
\* the matches from offset p on, leftmost first and non-overlapping, each
\* with its start(), end(), group(1)
FindIterFrom(text, p) ==
    LET hits == {q \in p..(Len(text) - 1) : HeaderEnd(text, q) # -1}
    IN  IF hits = {} THEN <<>>
        ELSE LET q == MinOf(hits)
             IN  <<[start |-> q, end |-> HeaderEnd(text, q),
                    group1 |-> Slice(text, q, HeaderEnd(text, q))]>>
                 \o FindIterFrom(text, HeaderEnd(text, q))

FindIter(text) == FindIterFrom(text, 0)

----------------------------------------------------------------------------
(* process_file: the per-section computations *)

SectionEndAlwaysTextEnd(ms, k, text) == Len(text)

\* end = matches[i + 1].start() if i + 1 < len(matches) else len(original_text)
\* for the 0-based loop index k
SectionEnd(ms, k, text) ==
    IF k + 1 < Len(ms) THEN ms[k + 2].start ELSE Len(text)

SectionTitleKeepPeriods(group1) == Replace(Strip(group1), <<" ">>, <<"_">>)

\* match.group(1).strip().replace(" ", "_").replace(".", "")
SectionTitle(group1) ==
    Replace(Replace(Strip(group1), <<" ">>, <<"_">>), <<".">>, <<>>)

DigitChars == <<"0","1","2","3","4","5","6","7","8","9">>

RECURSIVE Decimal(_)
Decimal(n) ==
    IF n < 10 THEN <<DigitChars[n + 1]>>
    ELSE Decimal(n \div 10) \o <<DigitChars[(n % 10) + 1]>>

\* format(n, "02d")
Format02d(n) == IF n < 10 THEN <<"0">> \o Decimal(n) ELSE Decimal(n)

DOT_TXT == <<".","t","x","t">>

\* f"{file_path.stem}_{i+1:02d}_{section_title}.txt" for the 0-based index k
OutFileName(stem, k, section_title) ==
    stem \o <<"_">> \o Format02d(k + 1) \o <<"_">> \o section_title \o DOT_TXT

\* the cleanup of one section text, in the order of the code
CleanSection(text) ==
    remove_unwanted_text(remove_footnotes(preserve_poetry_linebreaks(text)))

----------------------------------------------------------------------------
(* process_file: the run over the input directory *)

\* stems of the *.txt files the input directory can hold
StemSet == {<<"a">>, <<"a","_","0","1","_","C","O","M","P","A","R","I","S","O","N","_","O","F">>}

\* lines the input files are made of: a LIFE OF header (a header only once
\* normalized), a COMPARISON OF header, a body line that is no header, a
\* footnote marker
DocLines ==
    { LIFE_OF \o <<AElig, ".">>,
      COMPARISON_OF \o <<" ","0","1"," ","L","I","F","E"," ","O","F"," ","A","E"," ">>,
      LIFE_OF \o <<"x">>,
      <<"F","O","O","T","N","O","T","E","S",":">> }

RECURSIVE LineSeqs(_)
LineSeqs(n) ==
    IF n = 0 THEN {<<>>}
    ELSE {<<>>} \cup {<<l>> \o ls : l \in DocLines, ls \in LineSeqs(n - 1)}

\* the file contents a read can return
Docs == {JoinWith(ls, <<NL>>) : ls \in LineSeqs(MaxLines)}

\* what reading a file leaves in original_text and matches, per content
Parsed ==
    [raw \in Docs |->
        [text |-> Normalize(raw), matches |-> FindIter(Normalize(raw))]]

Init ==
    /\ fn = "none"
    /\ arg = <<>>
    /\ result = <<>>
    /\ pc = "glob"
    /\ pending \in SUBSET StemSet
    /\ file_stem = <<>>
    /\ original_text = <<>>
    /\ matches = <<>>
    /\ i = 0
    /\ disk = <<>>
    /\ log = <<>>

\* the glob yields the next file, in no particular order; the file is read,
\* normalized and searched for headers
ReadFile ==
    /\ pc = "glob"
    /\ \E stem \in pending : \E raw \in Docs :
          LET text == Parsed[raw].text
              ms == Parsed[raw].matches
          IN  /\ pending' = pending \ {stem}
              /\ file_stem' = stem
              /\ original_text' = text
              /\ matches' = ms
              /\ pc' = IF ms = <<>> THEN "glob" ELSE "sections"
    /\ i' = 0
    /\ log' = <<>>
    /\ UNCHANGED <<fn, arg, result, disk>>

\* open() or f.read() raises: the exception leaves process_file
ReadFail ==
    /\ pc = "glob"
    /\ pending # {}
    /\ pc' = "failed"
    /\ UNCHANGED <<fn, arg, result, pending, file_stem, original_text, matches,
                   i, disk, log>>

\* the glob is exhausted
Finish ==
    /\ pc = "glob"
    /\ pending = {}
    /\ pc' = "done"
    /\ UNCHANGED <<fn, arg, result, pending, file_stem, original_text, matches,
                   i, disk, log>>

\* the directory after out_file is opened for writing by section index of
\* file stem; done tells whether f.write() went through
WithFile(d, name, stem, index, done) ==
    [n \in (DOMAIN d) \cup {name} |->
        IF n = name
        THEN [writers |-> (IF name \in DOMAIN d THEN d[name].writers ELSE <<>>)
                              \o <<[stem |-> stem, index |-> index]>>,
              complete |-> done]
        ELSE d[n]]

\* one iteration of the inner loop, the write succeeding
WriteSection ==
    /\ pc = "sections"
    /\ i < Len(matches)
    /\ LET start == matches[i + 1].start
           end == SectionEnd(matches, i, original_text)
           section_title == SectionTitle(matches[i + 1].group1)
           section_text == Strip(Slice(original_text, start, end))
           out_file == OutFileName(file_stem, i, section_title)
       IN  /\ disk' = WithFile(disk, out_file, file_stem, i + 1, TRUE)
           /\ log' = Append(log, [index |-> i + 1, start |-> start, end |-> end,
                                  title |-> matches[i + 1].group1,
                                  section_text |-> section_text,
                                  cleaned_text |-> CleanSection(section_text),
                                  out_file |-> out_file])
    /\ i' = i + 1
    /\ pc' = IF i + 1 < Len(matches) THEN "sections" ELSE "glob"
    /\ UNCHANGED <<fn, arg, result, pending, file_stem, original_text, matches>>

WriteFailRollback ==
    /\ pc = "sections"
    /\ i < Len(matches)
    /\ disk' = [n \in {m \in DOMAIN disk :
                        \A k \in 1..Len(log) : log[k].out_file # m} |-> disk[n]]
    /\ pc' = "failed"
    /\ UNCHANGED <<fn, arg, result, pending, file_stem, original_text, matches,
                   i, log>>

\* one iteration of the inner loop, the write raising: either open() fails
\* and leaves the directory alone, or f.write() fails after open() has
\* created or truncated the file
WriteFail ==
    /\ pc = "sections"
    /\ i < Len(matches)
    /\ \/ disk' = disk
       \/ disk' = WithFile(disk,
                           OutFileName(file_stem, i,
                                       SectionTitle(matches[i + 1].group1)),
                           file_stem, i + 1, FALSE)
    /\ pc' = "failed"
    /\ UNCHANGED <<fn, arg, result, pending, file_stem, original_text, matches,
                   i, log>>

Next == ReadFile \/ ReadFail \/ Finish \/ WriteSection \/ WriteFail

Spec == Init /\ [][Next]_vars

----------------------------------------------------------------------------
(* The harness that applies one text function to one input. *)

PoetryPieces == {<<"a">>, <<" ">>, <<NL>>, FourSpaces, POETRY_LB}

PoetryTexts == TextsOf(PoetryPieces, MaxPoetryParts)

Idle ==
    /\ pc = "done"
    /\ pending = {}
    /\ file_stem = <<>>
    /\ original_text = <<>>
    /\ matches = <<>>
    /\ i = 0
    /\ disk = <<>>
    /\ log = <<>>

IdleUnchanged ==
    UNCHANGED <<pc, pending, file_stem, original_text, matches, i, disk, log>>

InitPoetry ==
    /\ fn = "none"
    /\ arg \in PoetryTexts
    /\ result = <<>>
    /\ Idle

CallPreservePoetry ==
    /\ fn = "none"
    /\ fn' = "preserve_poetry_linebreaks"
    /\ result' = preserve_poetry_linebreaks(arg)
    /\ UNCHANGED arg
    /\ IdleUnchanged

NextPoetry == CallPreservePoetry

SpecPoetry == InitPoetry /\ [][NextPoetry]_vars

UnwantedPieces ==
    {<<"[">>, <<"]">>, <<"1">>, <<"[","2","3","]">>, <<"x">>,
     PLUTARCHS_LIVES, <<".">>, <<" ","(","v">>, <<")">>}

UnwantedTexts == TextsOf(UnwantedPieces, MaxUnwantedParts)

InitUnwanted ==
    /\ fn = "none"
    /\ arg \in UnwantedTexts
    /\ result = <<>>
    /\ Idle

CallRemoveUnwanted ==
    /\ fn = "none"
    /\ fn' = "remove_unwanted_text"
    /\ result' = remove_unwanted_text(arg)
    /\ UNCHANGED arg
    /\ IdleUnchanged

NextUnwanted == CallRemoveUnwanted

SpecUnwanted == InitUnwanted /\ [][NextUnwanted]_vars

NormalizePieces ==
    {<<AElig>>, <<aelig>>, <<OElig>>, <<oelig>>, <<"A">>, <<"E">>, <<"o">>, <<"e">>}

NormalizeTexts == TextsOf(NormalizePieces, MaxNormalizeParts)

InitNormalize ==
    /\ fn = "none"
    /\ arg \in NormalizeTexts
    /\ result = <<>>
    /\ Idle

\* the normalization of process_file, applied once and then once more
CallNormalize ==
    /\ fn \in {"none", "normalize"}
    /\ fn' = IF fn = "none" THEN "normalize" ELSE "normalize_twice"
    /\ result' = Normalize(IF fn = "none" THEN arg ELSE result)
    /\ UNCHANGED arg
    /\ IdleUnchanged

NextNormalize == CallNormalize

SpecNormalize == InitNormalize /\ [][NextNormalize]_vars

----------------------------------------------------------------------------
(* Claims about preserve_poetry_linebreaks. *)

called == fn # "none"

\* offsets (0-based) at which the literal sentinel occurs in the text
SentinelStarts(text) == {p \in 0..Len(text) : StartsAt(text, p, POETRY_LB)}

HasSentinel(text) == SentinelStarts(text) # {}

\* index in the output of the character at index k of the input: every
\* literal sentinel before it shrinks from 11 characters to 1
OutPos(text, k) ==
    k - (Len(POETRY_LB) - 1)
        * Cardinality({p \in SentinelStarts(text) : p + Len(POETRY_LB) < k})

IsNewline(text, k) == text[k] = NL

\* the newline at index k is immediately followed by four spaces
BeforeVerse(text, k) == StartsAt(text, k, FourSpaces)

\* the newline at index k touches another newline
AdjacentNewline(text, k) ==
    \/ k > 1 /\ text[k - 1] = NL
    \/ k < Len(text) /\ text[k + 1] = NL

\* C4: a newline next to another newline (a blank-line paragraph separator)
\* is never replaced by a space.
C4_BlankLineKept ==
    called =>
        \A k \in 1..Len(arg) :
            (IsNewline(arg, k) /\ AdjacentNewline(arg, k))
                => result[OutPos(arg, k)] # " "

\* C5: a newline followed by four spaces stays a newline; a single newline
\* not followed by four spaces becomes exactly one space; nothing else moves
\* (so three unindented lines become one line joined by single spaces).
C5_VerseKeptProseJoined ==
    called =>
        /\ \A k \in 1..Len(arg) :
              IsNewline(arg, k) =>
                /\ BeforeVerse(arg, k) => result[OutPos(arg, k)] = NL
                /\ (~BeforeVerse(arg, k) /\ ~AdjacentNewline(arg, k))
                      => result[OutPos(arg, k)] = " "
        /\ ~HasSentinel(arg) =>
              /\ Len(result) = Len(arg)
              /\ \A k \in 1..Len(arg) : ~IsNewline(arg, k) => result[k] = arg[k]

C5_Witness ==
    /\ called
    /\ ~HasSentinel(arg)
    /\ \E k \in 1..Len(arg) : IsNewline(arg, k) /\ BeforeVerse(arg, k)
    /\ \E k \in 1..Len(arg) :
          IsNewline(arg, k) /\ ~BeforeVerse(arg, k) /\ ~AdjacentNewline(arg, k)
    /\ \E k \in 1..Len(result) : result[k] = NL
    /\ \E k \in 1..Len(result) : result[k] = " " /\ arg[k] = NL

RECURSIVE LinesFrom(_, _)
\* the lines of a text from offset p on, split at every newline
LinesFrom(text, p) ==
    LET q == Find(text, <<NL>>, p)
    IN  IF q = -1 THEN <<Slice(text, p, Len(text))>>
        ELSE <<Slice(text, p, q)>> \o LinesFrom(text, q + 1)

LinesOf(text) == LinesFrom(text, 0)

IsVerseLine(line) == StartsWith(line, FourSpaces)

NoBlankLine(text) == \A k \in 1..(Len(text) - 1) : ~(text[k] = NL /\ text[k + 1] = NL)

RECURSIVE JoinByPrevious(_, _)
\* the classifier of the design notes: the break after line k is kept when
\* line k is verse and becomes a space when line k is prose
JoinByPrevious(lines, k) ==
    IF k >= Len(lines) THEN lines[k]
    ELSE lines[k] \o (IF IsVerseLine(lines[k]) THEN <<NL>> ELSE <<" ">>)
                  \o JoinByPrevious(lines, k + 1)

RECURSIVE JoinByNext(_, _)
\* the break before line k + 1 is kept when line k + 1 is verse and becomes
\* a space when line k + 1 is prose
JoinByNext(lines, k) ==
    IF k >= Len(lines) THEN lines[k]
    ELSE lines[k] \o (IF IsVerseLine(lines[k + 1]) THEN <<NL>> ELSE <<" ">>)
                  \o JoinByNext(lines, k + 1)

\* C9 as stated: the marker code equals the classifier that joins
\* prose-to-prose and prose-to-verse and keeps verse-to-anything.
C9_EquivalentAsStated ==
    (called /\ NoBlankLine(arg)) => result = JoinByPrevious(LinesOf(arg), 1)

\* C9 amended: the marker code equals the classifier that keeps the break
\* before every verse line and joins the break before every prose line,
\* followed by turning each literal sentinel of the text into a newline.
C9_EquivalentAmended ==
    (called /\ NoBlankLine(arg))
        => result = Replace(JoinByNext(LinesOf(arg), 1), POETRY_LB, <<NL>>)

C9_Witness ==
    /\ called
    /\ NoBlankLine(arg)
    /\ Len(LinesOf(arg)) = 3
    /\ IsVerseLine(LinesOf(arg)[2])
    /\ ~IsVerseLine(LinesOf(arg)[1])
    /\ ~IsVerseLine(LinesOf(arg)[3])
    /\ result # arg
    /\ \E k \in 1..Len(result) : result[k] = NL

----------------------------------------------------------------------------
(* Claims about remove_unwanted_text. *)

\* the text has a substring "[" digits "]"
HasCitation(text) ==
    \E a \in 1..Len(text) : \E b \in (a + 2)..Len(text) :
        /\ text[a] = "["
        /\ text[b] = "]"
        /\ \A k \in (a + 1)..(b - 1) : IsDigit(text[k])

RECURSIVE IsSubsequenceFrom(_, _, _, _)
\* the characters of small after offset a occur, in the same order, in big
\* after offset b: skip what the two have in common, then look in big for
\* the next character small needs
IsSubsequenceFrom(small, big, a, b) ==
    LET room == IF Len(small) - a < Len(big) - b
                THEN Len(small) - a ELSE Len(big) - b
        same == MinOf({n \in 0..room :
                          n = room \/ small[a + n + 1] # big[b + n + 1]})
        next == Find(big, <<small[a + same + 1]>>, b + same)
    IN  IF a + same = Len(small) THEN TRUE
        ELSE IF next = -1 THEN FALSE
        ELSE IsSubsequenceFrom(small, big, a + same, next)

IsSubsequence(small, big) == IsSubsequenceFrom(small, big, 0, 0)

\* some "[" is followed, after zero or more digits, by another "[" or by "P"
BracketOpensBeforeRemoval(text) ==
    \E a \in 1..Len(text) : \E b \in (a + 1)..Len(text) :
        /\ text[a] = "["
        /\ text[b] \in {"[", "P"}
        /\ \A k \in (a + 1)..(b - 1) : IsDigit(text[k])

SeeExample ==
    <<".",".",".","s","e","e"," ","[","1","2","]"," ","a","n","d"," ",
      "[","3","4","5","]",".",".",".">>

SeeExampleCleaned ==
    <<".",".",".","s","e","e"," "," ","a","n","d"," ",".",".",".">>

\* index k of the text lies inside a substring "[" digits "]"
InCitation(text, k) ==
    \E a \in 1..k : \E b \in k..Len(text) :
        /\ b >= a + 2
        /\ text[a] = "["
        /\ text[b] = "]"
        /\ \A m \in (a + 1)..(b - 1) : IsDigit(text[m])

\* the text without the characters of its "[" digits "]" substrings
WithoutCitations(text) ==
    LET Outside(k) == ~InCitation(text, k)
        kept == SelectSeq([k \in 1..Len(text) |-> k], Outside)
    IN  [j \in 1..Len(kept) |-> text[kept[j]]]

HasP(text) == \E k \in 1..Len(text) : text[k] = "P"

SeeExampleHolds == remove_unwanted_text(SeeExample) = SeeExampleCleaned

\* C6 as stated: the returned text never contains "[" digits "]", and the
\* kept characters keep their order.
C6_NoCitationLeft ==
    called => (~HasCitation(result) /\ IsSubsequence(result, arg))

\* C6 amended: every "[" digits "]" of the input is deleted and the kept
\* characters keep their order (nothing else is deleted when the input has
\* no reference), and the returned text contains no "[" digits "]" whenever
\* no "[" of the input is followed, after zero or more digits, by another
\* "[" or by "P".
C6_NoCitationLeftUnlessJoined ==
    called =>
        /\ IsSubsequence(result, WithoutCitations(arg))
        /\ ~HasP(arg) => result = WithoutCitations(arg)
        /\ ~BracketOpensBeforeRemoval(arg) => ~HasCitation(result)
        /\ SeeExampleHolds

C6_Witness ==
    /\ called
    /\ HasCitation(arg)
    /\ ~BracketOpensBeforeRemoval(arg)
    /\ ~HasCitation(result)
    /\ result # <<>>
    /\ Len(result) < Len(arg)

----------------------------------------------------------------------------
(* Claims about the character normalization. *)

Ligatures == {AElig, aelig, OElig, oelig}

HasLigature(text) == \E k \in 1..Len(text) : text[k] \in Ligatures

\* C8: normalizing twice gives what normalizing once gives, and the
\* normalized text has none of the four ligatures.
C8_NormalizeIdempotent ==
    /\ fn = "normalize" => (~HasLigature(result) /\ Normalize(result) = result)
    /\ fn = "normalize_twice" => result = Normalize(arg)

C8_Witness ==
    /\ fn = "normalize_twice"
    /\ \A c \in Ligatures : \E k \in 1..Len(arg) : arg[k] = c
    /\ result # arg

----------------------------------------------------------------------------
(* Claims about process_file. *)

\* the line of the text that starts at offset p
LineAt(text, p) ==
    LET stops == {q \in p..Len(text) : q = Len(text) \/ text[q + 1] = NL}
    IN  Slice(text, p, MinOf(stops))

\* a line that is exactly "LIFE OF " plus one or more of A-Z, space, period,
\* or that starts with "COMPARISON OF"
IsHeaderLine(line) ==
    \/ /\ StartsWith(line, LIFE_OF)
       /\ Len(line) > Len(LIFE_OF)
       /\ \A k \in (Len(LIFE_OF) + 1)..Len(line) :
             IsUpper(line[k]) \/ line[k] \in {" ", "."}
    \/ StartsWith(line, COMPARISON_OF)

\* start offsets of the header lines of a text
HeaderStarts(text) ==
    {p \in 0..(Len(text) - 1) :
        (p = 0 \/ text[p] = NL) /\ IsHeaderLine(LineAt(text, p))}

\* the k-th smallest element of a set of numbers
Nth(S, k) == CHOOSE p \in S : Cardinality({q \in S : q < p}) = k - 1

\* names in the output directory that the file being processed has written
NamesOfCurrentFile ==
    {n \in DOMAIN disk :
        \E k \in 1..Len(disk[n].writers) : disk[n].writers[k].stem = file_stem}

\* C1: a text with N header lines gives exactly N sections, in header order,
\* section k spanning from header k to header k + 1 (text end for the last),
\* so sections do not overlap; N = 0 gives no section and no file.
C1_SectionsAreHeaderSpans ==
    LET H == HeaderStarts(original_text)
        N == Cardinality(H)
    IN  /\ Len(matches) = N
        /\ Len(log) <= N
        /\ pc \in {"glob", "done"} => Len(log) = N
        /\ \A k \in 1..Len(log) :
              /\ log[k].index = k
              /\ log[k].start = Nth(H, k)
              /\ log[k].end = (IF k < N THEN Nth(H, k + 1) ELSE Len(original_text))
              /\ log[k].start < log[k].end
              /\ \A j \in 1..(k - 1) : log[j].end <= log[k].start
        /\ N = 0 => (log = <<>> /\ NamesOfCurrentFile = {})

C1_Witness ==
    /\ pc = "glob"
    /\ Len(log) = 2
    /\ log[1].start > 0
    /\ log[1].end = log[2].start
    /\ log[2].end = Len(original_text)
    /\ Cardinality(DOMAIN disk) >= 2

\* offset of the first line of the text that, trimmed and lower-cased,
\* starts with "footnotes:" or "[footnote ", or -1
FirstFootnoteLine(text) ==
    LET hits == {p \in 0..(Len(text) - 1) :
                    (p = 0 \/ text[p] = NL) /\ IsFootnoteLine(LineAt(text, p))}
    IN  IF hits = {} THEN -1 ELSE MinOf(hits)

\* C2: the cleaned output of a section with a footnote marker line is the
\* cleanup of the text strictly before the first such line, right-trimmed;
\* without such a line the footnote step changes nothing.
C2_FootnotesCutOff ==
    \A k \in 1..Len(log) :
        LET s == log[k].section_text
            m == FirstFootnoteLine(s)
            kept == IF m = -1 THEN s ELSE RStrip(Slice(s, 0, m))
        IN  log[k].cleaned_text
                = remove_unwanted_text(preserve_poetry_linebreaks(kept))

\* C3: no output file name is written by two distinct sections.
C3_NoSharedOutputName ==
    \A n \in DOMAIN disk : Len(disk[n].writers) <= 1

\* the title as the naming rule of the claim slugs it: trimmed, spaces to
\* underscores, periods dropped
SlugOf(title) ==
    LET NotPeriod(c) == c # "."
        kept == SelectSeq(Strip(title), NotPeriod)
    IN  [k \in 1..Len(kept) |-> IF kept[k] = " " THEN "_" ELSE kept[k]]

\* n in decimal, zero-padded to at least two digits
TwoDigits(n) ==
    IF n < 100 THEN <<DigitChars[(n \div 10) + 1], DigitChars[(n % 10) + 1]>>
    ELSE Decimal(n)

PlutarchStem == <<"p","l","u","t","a","r","c","h">>

\* plutarch.txt with the headers LIFE OF CAESAR and then LIFE OF BRUTUS
PlutarchExample ==
    /\ OutFileName(PlutarchStem, 0, SectionTitle(<<"L","I","F","E"," ","O","F"," ","C","A","E","S","A","R">>))
          = <<"p","l","u","t","a","r","c","h","_","0","1","_","L","I","F","E","_","O","F","_","C","A","E","S","A","R",".","t","x","t">>
    /\ OutFileName(PlutarchStem, 1, SectionTitle(<<"L","I","F","E"," ","O","F"," ","B","R","U","T","U","S">>))
          = <<"p","l","u","t","a","r","c","h","_","0","2","_","L","I","F","E","_","O","F","_","B","R","U","T","U","S",".","t","x","t">>

\* C7: without a failed write, a document with N headers has written exactly
\* N files, the k-th named stem_NN_slug.txt from the k-th header line.
C7_OutputNames ==
    LET H == HeaderStarts(original_text)
        N == Cardinality(H)
    IN  /\ \A k \in 1..Len(log) :
              /\ log[k].out_file
                    = file_stem \o <<"_">> \o TwoDigits(k) \o <<"_">>
                        \o SlugOf(LineAt(original_text, Nth(H, k))) \o DOT_TXT
              /\ log[k].out_file \in DOMAIN disk
        /\ pc # "failed" =>
              /\ NamesOfCurrentFile = {log[k].out_file : k \in 1..Len(log)}
              /\ Cardinality(NamesOfCurrentFile) = Len(log)
        /\ pc \in {"glob", "done"} => Cardinality(NamesOfCurrentFile) = N
        /\ PlutarchExample

C7_Witness ==
    /\ pc = "glob"
    /\ Len(log) = 2
    /\ \E k \in 1..Len(log[1].title) : log[1].title[k] = "."
    /\ log[2].title # Strip(log[2].title)
    /\ Cardinality(NamesOfCurrentFile) = 2

IsPrefix(a, b) == Len(a) <= Len(b) /\ SubSeq(b, 1, Len(a)) = a

\* C10: files are handled one at a time, the sections of a file written in
\* index order before the next file is read; a failure ends the run; the
\* files written so far stay: names and their writers only grow.
C10_OrderedAndNothingUndone ==
    [][ /\ pc = "failed" => vars' = vars
        /\ file_stem' # file_stem =>
              (pc = "glob" /\ i = Len(matches) /\ Len(log) = Len(matches))
        /\ (log' # log /\ log' # <<>>) =>
              (/\ Len(log') = Len(log) + 1
               /\ IsPrefix(log, log')
               /\ log'[Len(log')].index = Len(log) + 1
               /\ file_stem' = file_stem)
        /\ DOMAIN disk \subseteq DOMAIN disk'
        /\ \A n \in DOMAIN disk : IsPrefix(disk[n].writers, disk'[n].writers)
      ]_vars

C10_Witness ==
    /\ pc = "failed"
    /\ pending = {}
    /\ Len(log) >= 1
    /\ Len(log) < Len(matches)
    /\ \E n \in DOMAIN disk : n \notin NamesOfCurrentFile /\ disk[n].complete
    /\ \E n \in NamesOfCurrentFile : disk[n].complete

====
